---- MODULE Spec2Model ----
(***************************************************************************)
(* Model of the GrowthBook OpenFeature provider                            *)
(* (src/src/growthbook_openfeature_provider/provider.py).                  *)
(*                                                                         *)
(* The provider holds a backend client handle and an `initialized` flag.   *)
(* initialize() and close() are coroutines with one await each, so they    *)
(* are modelled as a start step and a completion step; the synchronous     *)
(* evaluation (_process_flag_evaluation) is split at the points where it   *)
(* re-reads self.client, so that another thread's close() or initialize()  *)
(* can take effect in between.                                             *)
(***************************************************************************)
EXTENDS Integers, Sequences, FiniteSets, TLC

(***************************************************************************)
(* Bounds of the model.                                                    *)
(***************************************************************************)
\* initialize() calls (each builds one backend client) in one run of
\* SpecConcurrent
MaxClients == 3
\* initialize() calls in one run of Spec
MaxSequentialInits == 2
\* initialize() calls that may be awaiting the backend at the same time
MaxPendingInit == 1
\* close() calls that may be awaiting the backend at the same time
MaxPendingClose == 2

(***************************************************************************)
(* Python values.  A value is a pair <<type, text>>; the text is what      *)
(* str() prints for it.                                                    *)
(***************************************************************************)
None == <<"none", "None">>
PyTrue == <<"bool", "True">>
PyFalse == <<"bool", "False">>
PyInt(s) == <<"int", s>>
PyFloat(s) == <<"float", s>>
PyStr(s) == <<"str", s>>
PyObj(s) == <<"obj", s>>

\* values the backend may hand back for a flag
RawValues ==
    { None, PyTrue, PyInt("0"), PyInt("5"), PyFloat("1.5"),
      PyStr("5"), PyStr("abc"), PyObj("{'a': 1}") }

\* Python truthiness of a value (bool(x), `if x`, `not x`)
Truthy(x) ==
    CASE x[1] = "none"  -> FALSE
      [] x[1] = "bool"  -> x[2] = "True"
      [] x[1] = "int"   -> x[2] # "0"
      [] x[1] = "float" -> x[2] # "0.0"
      [] x[1] = "str"   -> x[2] # ""
      [] x[1] = "obj"   -> x[2] \notin {"{}", "[]"}

\* decimal integer literals int() accepts among the strings of the model
IntLiterals == {"0", "5", "2", "7"}
\* literals float() accepts, with the float they denote
FloatLiterals == {"0", "5", "2", "7", "1.5", "2.5", "0.0", "5.0"}
FloatOfLiteral(s) ==
    CASE s = "0" -> "0.0" [] s = "5" -> "5.0" [] s = "2" -> "2.0"
      [] s = "7" -> "7.0" [] OTHER -> s
\* truncation of a float towards zero, as int() does
TruncOfFloat(s) ==
    CASE s = "1.5" -> "1" [] s = "2.5" -> "2" [] s = "0.0" -> "0"
      [] s = "5.0" -> "5" [] OTHER -> "0"

Ok(v) == [ok |-> TRUE, v |-> v, exc |-> "", msg |-> ""]
Raise(exc, msg) == [ok |-> FALSE, v |-> None, exc |-> exc, msg |-> msg]

\* bool(x)
ToBool(x) == Ok(IF Truthy(x) THEN PyTrue ELSE PyFalse)
\* str(x)
ToStr(x) == Ok(PyStr(x[2]))
\* int(x)
ToInt(x) ==
    CASE x[1] = "int"   -> Ok(x)
      [] x[1] = "bool"  -> Ok(PyInt(IF x[2] = "True" THEN "1" ELSE "0"))
      [] x[1] = "float" -> Ok(PyInt(TruncOfFloat(x[2])))
      [] x[1] = "str"   -> IF x[2] \in IntLiterals THEN Ok(PyInt(x[2]))
                           ELSE Raise("ValueError", "invalid literal for int()")
      [] OTHER          -> Raise("TypeError", "int() argument must be a string or a number")
\* float(x)
ToFloat(x) ==
    CASE x[1] = "float" -> Ok(x)
      [] x[1] = "int"   -> Ok(PyFloat(FloatOfLiteral(x[2])))
      [] x[1] = "bool"  -> Ok(PyFloat(IF x[2] = "True" THEN "1.0" ELSE "0.0"))
      [] x[1] = "str"   -> IF x[2] \in FloatLiterals THEN Ok(PyFloat(FloatOfLiteral(x[2])))
                           ELSE Raise("ValueError", "could not convert string to float")
      [] OTHER          -> Raise("TypeError", "float() argument must be a string or a number")
\* lambda x: x
ToObject(x) == Ok(x)

Kinds == {"boolean", "string", "integer", "float", "object"}

\* the value_converter each resolve_*_details passes
value_converter(kind, x) ==
    CASE kind = "boolean" -> ToBool(x)
      [] kind = "string"  -> ToStr(x)
      [] kind = "integer" -> ToInt(x)
      [] kind = "float"   -> ToFloat(x)
      [] kind = "object"  -> ToObject(x)

\* defaults a caller passes, per flag kind
Defaults(kind) ==
    CASE kind = "boolean" -> {PyFalse, PyTrue}
      [] kind = "string"  -> {PyStr("blue")}
      [] kind = "integer" -> {PyInt("7")}
      [] kind = "float"   -> {PyFloat("2.5")}
      [] kind = "object"  -> {PyObj("{'d': 0}")}

(***************************************************************************)
(* Evaluation contexts and _create_user_context.                           *)
(* A dict is a function from keys to values.  An EvaluationContext is a    *)
(* record; `present = FALSE` is the absent (None) context.                 *)
(***************************************************************************)
EmptyDict == [k \in {} |-> None]
DictGet(d, k) == IF k \in DOMAIN d THEN d[k] ELSE None
DictSet(d, k, v) == [x \in (DOMAIN d) \cup {k} |-> IF x = k THEN v ELSE d[x]]

NoContext == [present |-> FALSE, targeting_key |-> None, attributes |-> EmptyDict]
Context(tk, attrs) == [present |-> TRUE, targeting_key |-> tk, attributes |-> attrs]

TargetingKeys == {None, PyStr(""), PyStr("user-123")}
AttributeDicts ==
    { EmptyDict,
      [k \in {"country"} |-> PyStr("US")],
      [k \in {"id", "country"} |-> IF k = "id" THEN PyStr("attr-id") ELSE PyStr("US")] }
Contexts == {NoContext} \cup {Context(tk, a) : tk \in TargetingKeys, a \in AttributeDicts}

\* A variant of _create_user_context that skips the dict(...) copy and writes
\* "id" into the caller's own attributes object.
CreateUserContextAliased(ctx) ==
    IF ~ctx.present
    THEN [attributes |-> EmptyDict, fresh |-> TRUE, ctx |-> ctx]
    ELSE IF Truthy(ctx.targeting_key)
         THEN LET a == DictSet(ctx.attributes, "id", ctx.targeting_key)
              IN [attributes |-> a, fresh |-> FALSE,
                  ctx |-> [ctx EXCEPT !.attributes = a]]
         ELSE [attributes |-> ctx.attributes, fresh |-> FALSE, ctx |-> ctx]

\* A variant of _create_user_context that leaves the targeting key out of
\* the attributes.
CreateUserContextWithoutId(ctx) ==
    IF ~ctx.present
    THEN [attributes |-> EmptyDict, fresh |-> TRUE, ctx |-> ctx]
    ELSE [attributes |-> [k \in DOMAIN ctx.attributes |-> ctx.attributes[k]],
          fresh |-> TRUE, ctx |-> ctx]

\* _create_user_context: the attributes of the UserContext it returns,
\* whether they are an object of their own (not the caller's dict), and the
\* caller's context as it is after the call.
CreateUserContext(ctx) ==
    IF ~ctx.present
    THEN [attributes |-> EmptyDict, fresh |-> TRUE, ctx |-> ctx]
    ELSE LET copied == IF ctx.attributes # EmptyDict
                       THEN [k \in DOMAIN ctx.attributes |-> ctx.attributes[k]]
                       ELSE EmptyDict
             attributes == IF Truthy(ctx.targeting_key)
                           THEN DictSet(copied, "id", ctx.targeting_key)
                           ELSE copied
         IN [attributes |-> attributes, fresh |-> TRUE, ctx |-> ctx]

(***************************************************************************)
(* Resolution results (FlagResolutionDetails).  A message is a sequence of *)
(* text fragments, so that "contains the text" can be asked of it.         *)
(***************************************************************************)
NoMessage == <<>>
Details(value, variant, reason, error_code, error_message) ==
    [value |-> value, variant |-> variant, reason |-> reason,
     error_code |-> error_code, error_message |-> error_message]
NoResult == Details(None, "None", "None", "None", NoMessage)
MessageContains(msg, text) == \E i \in 1..Len(msg) : msg[i] = text

FlagKeys == {"test-flag"}

(***************************************************************************)
(* What the backend hands to the provider.                                 *)
(***************************************************************************)
RuleIds == {None, PyStr(""), PyStr("rule1")}
NoExperiment == [present |-> FALSE, variationId |-> None]
ExperimentResults ==
    {NoExperiment} \cup {[present |-> TRUE, variationId |-> v] : v \in {PyInt("0"), PyInt("2")}}
\* eval_feature returned None
NoFeatureResult ==
    [present |-> FALSE, value |-> None, ruleId |-> None, experimentResult |-> NoExperiment]
FeatureResults ==
    {NoFeatureResult} \cup
    {[present |-> TRUE, value |-> v, ruleId |-> r, experimentResult |-> e] :
        v \in RawValues, r \in RuleIds, e \in ExperimentResults}

ExceptionTypes == {"Exception", "ValueError", "RuntimeError"}
FailureText == "boom"
\* what running the coroutine does: it returns a feature result or raises
Returned(fr) == [raises |-> FALSE, exc |-> "", text |-> "", fr |-> fr]
Raised(exc, text) == [raises |-> TRUE, exc |-> exc, text |-> text, fr |-> NoFeatureResult]
Outcomes ==
    {Returned(fr) : fr \in FeatureResults} \cup {Raised(x, FailureText) : x \in ExceptionTypes}

\* what a call of run_async does: it returns v or raises exc(msg), having
\* started the coroutine `starts` times
Returns(v, starts) ==
    [ok |-> TRUE, v |-> v, exc |-> "", msg |-> NoMessage, starts |-> starts]
Throws(exc, msg, starts) ==
    [ok |-> FALSE, v |-> NoFeatureResult, exc |-> exc, msg |-> msg, starts |-> starts]

\* what client.features shows for the flag key at the moment of line 191:
\* no such attribute, no such key, or a feature with a defaultValue
NoFeaturesAttr == [attr |-> FALSE, has |-> FALSE, defaultValue |-> None]
NoSuchFeature == [attr |-> TRUE, has |-> FALSE, defaultValue |-> None]
Feature(v) == [attr |-> TRUE, has |-> TRUE, defaultValue |-> v]
FeatureViews == {NoFeaturesAttr, NoSuchFeature} \cup {Feature(v) : v \in RawValues}

(***************************************************************************)
(* State.                                                                  *)
(***************************************************************************)
VARIABLES
    enabled,        \* gb_options.enabled, fixed at construction
    client,         \* self.client: 0 is None, otherwise the id of a backend client
    initialized,    \* self.initialized
    created,        \* number of GrowthBookClient objects constructed so far
    backendInit,    \* per client: its initialize() is "none" (client not built),
                    \* "pending", "ok" (returned True), "failed" (returned False)
                    \* or "raised" (raised, and so did the provider's initialize())
    closeCalls,     \* per client: number of times its close() was invoked
    closePending,   \* per client: provider close() calls awaiting its close()
    readyClose,     \* clients on which close() was called while the provider was Ready
    closedSince,    \* a close() called on a Ready provider has completed and no
                    \* initialize() called after it has completed successfully yet
    lateInits,      \* pending initialize() calls made after that close() completed
    ev,             \* the evaluation call in progress, or the last one returned
    threadLoop,     \* the event loop of a thread that calls run_async directly
    lastCall        \* that thread's last run_async call

provider == <<enabled, client, initialized, created, backendInit>>
closing == <<closeCalls, closePending, readyClose, closedSince, lateInits>>
thread == <<threadLoop, lastCall>>
vars == <<enabled, client, initialized, created, backendInit, closeCalls,
          closePending, readyClose, closedSince, lateInits, ev, threadLoop, lastCall>>

ClientIds == 1..MaxClients

\* the gate of _process_flag_evaluation: `self.client and self.initialized`
GatePasses == client # 0 /\ initialized
\* Ready in the sense of the lifecycle: the gate passes on a client whose own
\* initialize() has returned True
Ready == GatePasses /\ backendInit[client] = "ok"

PendingInits == {c \in ClientIds : backendInit[c] = "pending"}
RECURSIVE SumTo(_, _)
SumTo(f, n) == IF n = 0 THEN 0 ELSE f[n] + SumTo(f, n - 1)
PendingCloses == SumTo(closePending, MaxClients)
\* no initialize() and no close() is awaiting the backend
Quiet == PendingInits = {} /\ PendingCloses = 0

IdleEval ==
    [pc |-> "idle", kind |-> "boolean", key |-> "", default |-> None,
     ctx |-> NoContext, user |-> EmptyDict, fresh |-> TRUE,
     input |-> NoContext, feature |-> NoFeaturesAttr,
     env |-> "", target |-> 0, calls |-> 0, starts |-> 0,
     outcome |-> Returned(NoFeatureResult), path |-> "", result |-> NoResult]

\* no run_async call made yet
IdleCall ==
    [pc |-> "idle", before |-> "", outcome |-> Returned(NoFeatureResult),
     result |-> Returns(NoFeatureResult, 0)]

\* __init__
Constructed ==
    /\ enabled \in BOOLEAN
    /\ client = 0
    /\ initialized = FALSE
    /\ created = 0
    /\ backendInit = [c \in ClientIds |-> "none"]
    /\ closeCalls = [c \in ClientIds |-> 0]
    /\ closePending = [c \in ClientIds |-> 0]
    /\ readyClose = {}
    /\ closedSince = FALSE
    /\ lateInits = {}
    /\ ev = IdleEval
    /\ lastCall = IdleCall

\* a provider just constructed; run_async is not called on its own
Init == Constructed /\ threadLoop = "no_loop"

(***************************************************************************)
(* initialize(): line 116 builds a new client and stores it, line 117      *)
(* awaits its initialize() and stores what it returns.                     *)
(***************************************************************************)
\* An initialize() that sets the flag whatever the backend returned.
InitializedAfterIgnoringResult(r) == TRUE

\* the value initialize() leaves in self.initialized when the backend returns r
InitializedAfter(r) == r

InitializeStart(overlap) ==
    /\ ev.pc # "done"
    /\ IF overlap
       THEN created < MaxClients /\ Cardinality(PendingInits) < MaxPendingInit
       ELSE created < MaxSequentialInits /\ created < MaxClients /\ Quiet
    /\ created' = created + 1
    /\ client' = created + 1
    /\ backendInit' = [backendInit EXCEPT ![created + 1] = "pending"]
    /\ lateInits' = IF closedSince THEN lateInits \cup {created + 1} ELSE lateInits
    /\ UNCHANGED <<enabled, initialized, closeCalls, closePending, readyClose,
                   closedSince, ev, thread>>

InitializeReturns(c, r) ==
    /\ ev.pc # "done"
    /\ backendInit[c] = "pending"
    /\ backendInit' = [backendInit EXCEPT ![c] = IF r THEN "ok" ELSE "failed"]
    /\ initialized' = InitializedAfter(r)
    /\ closedSince' = IF r /\ c \in lateInits THEN FALSE ELSE closedSince
    /\ lateInits' = lateInits \ {c}
    /\ UNCHANGED <<enabled, client, created, closeCalls, closePending, readyClose, ev, thread>>

\* the backend's initialize() raises: nothing catches it, so line 117 assigns
\* nothing and the exception leaves the provider's initialize()
InitializeRaises(c) ==
    /\ ev.pc # "done"
    /\ backendInit[c] = "pending"
    /\ backendInit' = [backendInit EXCEPT ![c] = "raised"]
    /\ lateInits' = lateInits \ {c}
    /\ UNCHANGED <<enabled, client, initialized, created, closeCalls, closePending,
                   readyClose, closedSince, ev, thread>>

(***************************************************************************)
(* close(): `if self.client:` then await self.client.close(), then clear   *)
(* both fields.                                                            *)
(***************************************************************************)
\* whether close() goes on to release the client it finds in self.client
CloseGuard(c) == c # 0

CloseStart(overlap) ==
    /\ ev.pc # "done"
    /\ CloseGuard(client)
    /\ client # 0
    /\ IF overlap THEN PendingCloses < MaxPendingClose ELSE Quiet
    /\ closeCalls' = [closeCalls EXCEPT ![client] = @ + 1]
    /\ closePending' = [closePending EXCEPT ![client] = @ + 1]
    /\ readyClose' = IF Ready THEN readyClose \cup {client} ELSE readyClose
    /\ UNCHANGED <<provider, closedSince, lateInits, ev, thread>>

CloseReturns(c) ==
    /\ ev.pc # "done"
    /\ closePending[c] > 0
    /\ closePending' = [closePending EXCEPT ![c] = @ - 1]
    /\ client' = 0
    /\ initialized' = FALSE
    /\ closedSince' = (closedSince \/ c \in readyClose)
    /\ lateInits' = {}
    /\ UNCHANGED <<enabled, created, backendInit, closeCalls, readyClose, ev, thread>>

\* close() on a provider whose self.client is None: the body is skipped
CloseNoop ==
    /\ ev.pc # "done"
    /\ ~CloseGuard(client)
    /\ UNCHANGED vars

(***************************************************************************)
(* The backend's eval_feature coroutine and run_async.                     *)
(***************************************************************************)
\* the ambient event loop of the calling thread, as asyncio.get_event_loop()
\* finds it: none (it raises RuntimeError), one that is not running, one that
\* is running on the calling thread, or one that has been closed (what the
\* handler of line 51 leaves installed)
LoopStates == {"no_loop", "idle_loop", "running_loop", "closed_loop"}

\* lines 46-50 on a thread whose loop is not running: get_event_loop() raises
\* without a loop, run_until_complete raises on a closed loop before it
\* touches the coroutine, and on an idle loop it runs the coroutine
FirstAttempt(env, outcome) ==
    CASE env = "no_loop" -> Throws("RuntimeError", <<"There is no current event loop">>, 0)
      [] env = "closed_loop" -> Throws("RuntimeError", <<"Event loop is closed">>, 0)
      [] OTHER -> IF outcome.raises THEN Throws(outcome.exc, <<outcome.text>>, 1)
                  ELSE Returns(outcome.fr, 1)

\* A run_async without the handler of line 51: what the first attempt raises
\* goes to the caller.
FirstAttemptOnly(env, outcome) == FirstAttempt(env, outcome)

\* whether line 51 catches what the first attempt raised
FallsBack(env, outcome) ==
    LET first == FirstAttempt(env, outcome)
    IN ~first.ok /\ first.exc = "RuntimeError"

\* A run_async whose handler of line 51 is given a coroutine that can be run
\* again: after a RuntimeError of the first attempt the operation starts anew.
RunAsyncRestarting(env, outcome) ==
    LET first == FirstAttempt(env, outcome)
    IN IF first.ok THEN first
       ELSE IF first.exc = "RuntimeError"
            THEN IF outcome.raises
                 THEN Throws(outcome.exc, <<outcome.text>>, first.starts + 1)
                 ELSE Returns(outcome.fr, first.starts + 1)
            ELSE Throws("RuntimeError", <<"Failed to execute async code: ", outcome.text>>,
                        first.starts)

\* run_async on a thread whose loop is not running (lines 45-60): what it
\* returns or raises, and how often the coroutine was started.
\*   The handler of line 51 runs the coroutine on a new loop; what the
\*   coroutine raises there leaves as it is.  A RuntimeError of the coroutine
\*   itself (idle loop) is caught by line 51 too, and run_until_complete of
\*   the finished coroutine raises RuntimeError("cannot reuse already awaited
\*   coroutine").  Any other exception of the first attempt is wrapped by
\*   line 60.
run_async(env, outcome) ==
    LET first == FirstAttempt(env, outcome)
    IN IF first.ok THEN first
       ELSE IF first.exc = "RuntimeError"
            THEN IF first.starts > 0
                 THEN Throws("RuntimeError", <<"cannot reuse already awaited coroutine">>,
                             first.starts)
                 ELSE IF outcome.raises THEN Throws(outcome.exc, <<outcome.text>>, 1)
                      ELSE Returns(outcome.fr, 1)
            ELSE Throws("RuntimeError", <<"Failed to execute async code: ", outcome.text>>,
                        first.starts)

\* the loop the calling thread is left with: the handler of line 51 installs
\* a new loop (line 54) and closes it (line 58)
LoopAfter(env, outcome) ==
    IF FallsBack(env, outcome) THEN "closed_loop" ELSE env

(***************************************************************************)
(* _process_flag_evaluation, by the place it returns from.                 *)
(***************************************************************************)
\* lines 172-176
NotReadyDetails(default) == Details(default, "None", "ERROR", "PROVIDER_NOT_READY", NoMessage)
\* lines 184-188
TargetingKeyMissingDetails(default) ==
    Details(default, "None", "ERROR", "TARGETING_KEY_MISSING", NoMessage)
\* An exception that leaves _process_flag_evaluation: nothing is returned.
Escapes(default, msg) == Details(None, "None", "RAISED", "None", msg)
\* An exception handler that fills in the error code and leaves the reason out.
GeneralDetailsWithoutReason(default, msg) == Details(default, "None", "None", "GENERAL", msg)
\* lines 238-244
GeneralDetails(default, msg) == Details(default, "None", "ERROR", "GENERAL", msg)
\* lines 213-218
TypeMismatchDetails(default, msg) ==
    Details(default, "None", "ERROR", "TYPE_MISMATCH", <<"Failed to convert value: ", msg>>)
\* An unknown flag reported as an error.
UnknownFlagAsError(default) == Details(default, "None", "ERROR", "FLAG_NOT_FOUND", NoMessage)
\* lines 203-207
UnknownFlagDetails(default) == Details(default, "None", "DEFAULT", "None", NoMessage)

\* the guard of line 183
TargetingKeyMissing(ctx, attributes) ==
    /\ ~Truthy(DictGet(attributes, "id"))
    /\ ctx.present
    /\ Truthy(ctx.targeting_key)

\* A reason that looks at the experiment result before the rule id.
ReasonOfExperimentFirst(fr) ==
    IF fr.experimentResult.present THEN "SPLIT"
    ELSE IF Truthy(fr.ruleId) THEN "TARGETING_MATCH"
    ELSE "DEFAULT"
\* lines 221-231: reason and variant of a feature result
ReasonOf(fr) ==
    IF Truthy(fr.ruleId) THEN "TARGETING_MATCH"
    ELSE IF fr.experimentResult.present THEN "SPLIT"
    ELSE "DEFAULT"
VariantOf(fr) ==
    IF Truthy(fr.ruleId) THEN fr.ruleId[2]
    ELSE IF fr.experimentResult.present THEN ToStr(fr.experimentResult.variationId).v[2]
    ELSE "None"

\* A fast path that hands out the feature's defaultValue as it is.
FastPathDetailsUnconverted(kind, default, defaultValue) ==
    Details(defaultValue, "None", "DEFAULT", "None", NoMessage)
\* lines 191-196: the fast path, given the feature found in client.features;
\* an exception of the converter is caught by line 238
FastPathDetails(kind, default, defaultValue) ==
    LET conv == value_converter(kind, defaultValue)
    IN IF conv.ok THEN Details(conv.v, "None", "DEFAULT", "None", NoMessage)
       ELSE GeneralDetails(default, <<conv.msg>>)

\* A line 211 without its `is not None` test: the converter is applied to
\* every value.
AfterEvalFeatureAlwaysConverting(kind, default, ra) ==
    IF ~ra.ok THEN GeneralDetails(default, ra.msg)
    ELSE IF ~ra.v.present THEN UnknownFlagDetails(default)
    ELSE LET conv == value_converter(kind, ra.v.value)
         IN IF ~conv.ok THEN TypeMismatchDetails(default, conv.msg)
            ELSE Details(conv.v, VariantOf(ra.v), ReasonOf(ra.v), "None", NoMessage)

\* lines 201-244: what is made of run_async's return or exception
AfterEvalFeature(kind, default, ra) ==
    IF ~ra.ok THEN GeneralDetails(default, ra.msg)
    ELSE IF ~ra.v.present THEN UnknownFlagDetails(default)
    ELSE LET conv == IF ra.v.value # None THEN value_converter(kind, ra.v.value)
                     ELSE Ok(default)
         IN IF ~conv.ok THEN TypeMismatchDetails(default, conv.msg)
            ELSE Details(conv.v, VariantOf(ra.v), ReasonOf(ra.v), "None", NoMessage)

\* lines 171-188: the gate, the context translation and the id guard
EvalStart(kind, key, default, ctx) ==
    /\ ev.pc \in {"idle", "blocked"}
    /\ LET call == [IdleEval EXCEPT !.kind = kind, !.key = key, !.default = default,
                                    !.input = ctx, !.ctx = ctx]
           u == CreateUserContext(ctx)
           translated == [call EXCEPT !.ctx = u.ctx, !.user = u.attributes,
                                      !.fresh = u.fresh]
       IN ev' = IF ~GatePasses
                THEN [call EXCEPT !.pc = "done", !.path = "not_ready",
                                  !.result = NotReadyDetails(default)]
                ELSE IF TargetingKeyMissing(u.ctx, u.attributes)
                THEN [translated EXCEPT !.pc = "done", !.path = "targeting_key_missing",
                                        !.result = TargetingKeyMissingDetails(default)]
                ELSE [translated EXCEPT !.pc = "gated"]
    /\ UNCHANGED <<provider, closing, thread>>

\* line 191, first half: hasattr(self.client, 'features'); None has no such
\* attribute
EvalLookup(view) ==
    /\ ev.pc = "gated"
    /\ client = 0 => view = NoFeaturesAttr
    /\ LET call == [ev EXCEPT !.input = NoContext, !.ctx = NoContext,
                              !.user = EmptyDict, !.fresh = TRUE, !.feature = view]
       IN ev' = IF view.attr THEN [call EXCEPT !.pc = "probed"]
                ELSE [call EXCEPT !.pc = "looked"]
    /\ UNCHANGED <<provider, closing, thread>>

\* line 191, second half, to line 196: self.client is read again for
\* `flag_key in self.client.features`; on None that raises AttributeError
\* (caught by line 238)
EvalFeatures ==
    /\ ev.pc = "probed"
    /\ ev' = IF client = 0
             THEN [ev EXCEPT !.pc = "done", !.path = "no_client",
                       !.feature = NoFeaturesAttr,
                       !.result = GeneralDetails(ev.default,
                           <<"'NoneType' object has no attribute 'features'">>)]
             ELSE IF ev.feature.has
             THEN [ev EXCEPT !.pc = "done", !.path = "fast",
                       !.result = FastPathDetails(ev.kind, ev.default,
                                                  ev.feature.defaultValue)]
             ELSE [ev EXCEPT !.pc = "looked"]
    /\ UNCHANGED <<provider, closing, thread>>

\* line 199, up to the point where run_async has handed the coroutine to a
\* loop: self.client.eval_feature(...) on a client that is None raises
\* AttributeError (caught by line 238); on a running loop
\* run_coroutine_threadsafe(...).result() waits for a loop that is waiting
\* for this call
EvalCall(env) ==
    /\ ev.pc = "looked"
    /\ ev' = IF client = 0
             THEN [ev EXCEPT !.pc = "done", !.path = "no_client",
                       !.result = GeneralDetails(ev.default,
                           <<"'NoneType' object has no attribute 'eval_feature'">>)]
             ELSE IF env = "running_loop"
             THEN [ev EXCEPT !.pc = "blocked", !.env = env, !.target = client, !.calls = 1]
             ELSE [ev EXCEPT !.pc = "calling", !.env = env, !.target = client, !.calls = 1]
    /\ UNCHANGED <<provider, closing, thread>>

\* the coroutine finishes; lines 201-244
EvalReturns(outcome) ==
    /\ ev.pc = "calling"
    /\ LET ra == run_async(ev.env, outcome)
       IN ev' = [ev EXCEPT !.pc = "done", !.path = "eval_feature", !.starts = ra.starts,
                           !.outcome = outcome, !.env = "", !.target = 0,
                           !.result = AfterEvalFeature(ev.kind, ev.default, ra)]
    /\ UNCHANGED <<provider, closing, thread>>

\* the caller has taken the result.  A returned result stays in `ev` for this
\* one step only: initialize() and close() steps wait for it (ev.pc # "done"),
\* since a step of theirs after the return is the same as one after this step
EvalAck ==
    /\ ev.pc = "done"
    /\ ev' = IdleEval
    /\ UNCHANGED <<provider, closing, thread>>

\* _create_user_context called on its own
CreateUserContextCall(ctx) ==
    /\ ev.pc = "idle"
    /\ LET u == CreateUserContext(ctx)
       IN ev' = [IdleEval EXCEPT !.pc = "done", !.path = "create_user_context",
                                 !.input = ctx, !.ctx = u.ctx, !.user = u.attributes,
                                 !.fresh = u.fresh]
    /\ UNCHANGED <<provider, closing, thread>>

Lifecycle(overlap) ==
    \/ InitializeStart(overlap)
    \/ \E c \in ClientIds, r \in BOOLEAN : InitializeReturns(c, r)
    \/ \E c \in ClientIds : InitializeRaises(c)
    \/ CloseStart(overlap)
    \/ \E c \in ClientIds : CloseReturns(c)
    \/ CloseNoop

Evaluation(kinds, ctxs, views, outcomes) ==
    \/ \E kind \in kinds, key \in FlagKeys, ctx \in ctxs :
          \E default \in Defaults(kind) : EvalStart(kind, key, default, ctx)
    \/ \E view \in views : EvalLookup(view)
    \/ EvalFeatures
    \/ \E env \in LoopStates : EvalCall(env)
    \/ \E outcome \in outcomes : EvalReturns(outcome)
    \/ EvalAck
    \/ \E ctx \in ctxs : CreateUserContextCall(ctx)

(***************************************************************************)
(* Spec: every flag kind, context, feature and backend outcome, with the   *)
(* provider's initialize() and close() calls made one after the other      *)
(* (evaluations still run while one of them awaits the backend).           *)
(***************************************************************************)
Next == Lifecycle(FALSE) \/ Evaluation(Kinds, Contexts, FeatureViews, Outcomes)
Spec == Init /\ [][Next]_vars

(***************************************************************************)
(* SpecConcurrent: initialize() and close() calls overlap each other at    *)
(* their awaits; evaluations draw from a sample of the inputs.             *)
(***************************************************************************)
SampleKinds == {"boolean", "integer"}
SampleContexts == {NoContext, Context(PyStr("user-123"), EmptyDict)}
SampleViews == {NoFeaturesAttr, Feature(PyInt("5"))}
SampleOutcomes ==
    { Returned(NoFeatureResult),
      Returned([present |-> TRUE, value |-> PyInt("5"), ruleId |-> PyStr("rule1"),
                experimentResult |-> NoExperiment]),
      Raised("Exception", FailureText) }
NextConcurrent ==
    Lifecycle(TRUE) \/ Evaluation(SampleKinds, SampleContexts, SampleViews, SampleOutcomes)
InitConcurrent == Init /\ enabled = TRUE
SpecConcurrent == InitConcurrent /\ [][NextConcurrent]_vars

(***************************************************************************)
(* SpecRunAsync: a thread calls run_async directly, one call after the     *)
(* other, each with a coroutine that returns a feature result or raises.   *)
(* The thread starts without a loop, with a loop that is not running, or   *)
(* inside a coroutine of its running loop.                                 *)
(***************************************************************************)
\* lines 45-60 on a thread whose loop is not running
RunAsyncCall(outcome) ==
    /\ lastCall.pc # "blocked"
    /\ threadLoop # "running_loop"
    /\ LET r == run_async(threadLoop, outcome)
       IN lastCall' = [pc |-> IF r.ok THEN "returned" ELSE "raised",
                       before |-> threadLoop, outcome |-> outcome, result |-> r]
    /\ threadLoop' = LoopAfter(threadLoop, outcome)
    /\ UNCHANGED <<provider, closing, ev>>

\* lines 47-48 inside a coroutine of the running loop:
\* run_coroutine_threadsafe hands the coroutine to the loop and .result()
\* waits on the loop's own thread, so the loop never gets to start it
RunAsyncBlocks(outcome) ==
    /\ lastCall.pc # "blocked"
    /\ threadLoop = "running_loop"
    /\ lastCall' = [pc |-> "blocked", before |-> threadLoop, outcome |-> outcome,
                    result |-> Returns(NoFeatureResult, 0)]
    /\ UNCHANGED <<provider, closing, ev, threadLoop>>

ThreadStarts == {"no_loop", "idle_loop", "running_loop"}
NextRunAsync ==
    \/ \E outcome \in Outcomes : RunAsyncCall(outcome)
    \/ \E outcome \in Outcomes : RunAsyncBlocks(outcome)
InitRunAsync == Constructed /\ enabled = TRUE /\ threadLoop \in ThreadStarts
SpecRunAsync == InitRunAsync /\ [][NextRunAsync]_vars

(***************************************************************************)
(* Properties.                                                             *)
(***************************************************************************)
\* an evaluation call has just returned ev.result
EvalDone == ev.pc = "done" /\ ev.path # "create_user_context"
\* some initialize() call has completed with the backend returning True
EverInitOk == \E c \in ClientIds : backendInit[c] = "ok"
\* the evaluation went as far as awaiting eval_feature, which returned fr
EvalFeatureReturned == EvalDone /\ ev.path = "eval_feature" /\ ~ev.outcome.raises
EvalFeatureRaised == EvalDone /\ ev.path = "eval_feature" /\ ev.outcome.raises

\* C1: while no initialize() call has completed successfully (never called,
\* still awaiting the backend, or the backend reported failure), an
\* evaluation of any kind returns the caller's default with reason ERROR and
\* error code PROVIDER_NOT_READY, and eval_feature is not invoked.
C1_NotReadyBeforeInit ==
    (EvalDone /\ ~EverInitOk) =>
        /\ ev.result.value = ev.default
        /\ ev.result.reason = "ERROR"
        /\ ev.result.error_code = "PROVIDER_NOT_READY"
        /\ ev.calls = 0
\* an evaluation returned on a provider whose only initialize() so far was
\* answered False by the backend (self.client is set, self.initialized is not)
C1_Witness ==
    /\ EvalDone /\ ~EverInitOk
    /\ client # 0 /\ backendInit[client] = "failed"
    /\ ev.kind = "float"

\* C2: when eval_feature raises, whatever the exception type, the evaluation
\* returns the caller's default, reason ERROR, error code GENERAL and an
\* error message that contains the original failure text.
C2_ErrorContainment ==
    EvalFeatureRaised =>
        /\ ev.result.value = ev.default
        /\ ev.result.reason = "ERROR"
        /\ ev.result.error_code = "GENERAL"
        /\ MessageContains(ev.result.error_message, ev.outcome.text)

\* C3: in every result an evaluation returns, the error code is set exactly
\* when the reason is ERROR.
C3_ErrorCodeIffError ==
    EvalDone => (ev.result.error_code # "None" <=> ev.result.reason = "ERROR")
\* an error result: the converter raised on the fast path and line 238 caught it
C3_Witness ==
    /\ EvalDone
    /\ ev.result.reason = "ERROR"
    /\ ev.result.error_code = "GENERAL"
    /\ ev.path = "fast"

\* C4: every result carries a value (never None), and every result whose
\* reason is ERROR carries exactly the caller's default.
C4_ValueAlwaysSet ==
    EvalDone =>
        /\ ev.result.value # None
        /\ ev.result.reason = "ERROR" => ev.result.value = ev.default

\* C5: on a provider configured with enabled = False that has been
\* initialized, resolve_boolean_details returns the caller's default with
\* reason DISABLED and no error code, and eval_feature is not invoked.
C5_DisabledShortCircuit ==
    (EvalDone /\ ~enabled /\ ev.kind = "boolean" /\ ev.path # "not_ready") =>
        /\ ev.result = Details(ev.default, "None", "DISABLED", "None", NoMessage)
        /\ ev.calls = 0

\* C6: once a close() called on a Ready provider has completed, evaluations
\* are refused (the readiness gate fails) until an initialize() called after
\* it completes successfully, and when that initialize() completes the gate
\* passes again.
C6_ClosedUntilReinitialized ==
    /\ [](closedSince => ~GatePasses)
    /\ [][\A c \in ClientIds :
            (c \in lateInits /\ InitializeReturns(c, TRUE)) => GatePasses']_vars

\* C7: however close() calls on an initialized provider follow or overlap
\* each other, the close() of its backend client is invoked exactly once:
\* never a second time.  (A close() that finds self.client None is CloseNoop,
\* which changes nothing.)
C7_ClientClosedOnce ==
    \A c \in readyClose : closeCalls[c] = 1

\* C8: once the initialize() call that built the current client is over, the
\* readiness gate passes only if that client's initialize() succeeded; and
\* when the backend's initialize() raises, the provider does not pass the
\* gate afterwards, whatever it did before the call.
C8_ReadyOnlyAfterSuccess ==
    /\ []((GatePasses /\ backendInit[client] # "pending") => backendInit[client] = "ok")
    /\ [][\A c \in ClientIds : InitializeRaises(c) => ~GatePasses']_vars

\* the attributes the context translation is to produce for a context
ExpectedUserAttributes(ctx) ==
    IF ~ctx.present THEN EmptyDict
    ELSE IF Truthy(ctx.targeting_key)
    THEN [k \in (DOMAIN ctx.attributes) \cup {"id"} |->
            IF k = "id" THEN ctx.targeting_key ELSE ctx.attributes[k]]
    ELSE ctx.attributes
\* _create_user_context has just run on ev.input (called on its own, or as
\* the first step of an evaluation that passed the gate)
Translated == ev.path = "create_user_context" \/ ev.pc = "gated"

\* C9: _create_user_context returns a user context of its own whose
\* attributes are the context's attributes with "id" set to the targeting
\* key when that is non-empty (empty for an absent context), and leaves the
\* caller's context as it was.
C9_ContextMapping ==
    Translated =>
        /\ ev.user = ExpectedUserAttributes(ev.input)
        /\ ev.fresh
        /\ ev.ctx = ev.input
\* the targeting key overwrote an "id" attribute the caller had supplied
C9_Witness ==
    /\ ev.path = "create_user_context"
    /\ ev.input.present
    /\ ev.input.targeting_key = PyStr("user-123")
    /\ DictGet(ev.input.attributes, "id") = PyStr("attr-id")
    /\ ev.user["id"] = PyStr("user-123")
    /\ ev.user["country"] = PyStr("US")

\* C10: when eval_feature returns a result whose value is not None and
\* converts, the resolution carries the converted value and no error code,
\* with reason TARGETING_MATCH and the rule id as variant if the result has
\* a rule id, else reason SPLIT and str(variationId) as variant if it has an
\* experiment result, else reason DEFAULT and no variant.
C10_ReasonAndVariant ==
    (/\ EvalFeatureReturned
     /\ ev.outcome.fr.present
     /\ ev.outcome.fr.value # None
     /\ value_converter(ev.kind, ev.outcome.fr.value).ok) =>
        LET fr == ev.outcome.fr
            r == ev.result
        IN /\ r.value = value_converter(ev.kind, fr.value).v
           /\ r.error_code = "None"
           /\ Truthy(fr.ruleId) =>
                r.reason = "TARGETING_MATCH" /\ r.variant = fr.ruleId[2]
           /\ (~Truthy(fr.ruleId) /\ fr.experimentResult.present) =>
                r.reason = "SPLIT" /\ r.variant = fr.experimentResult.variationId[2]
           /\ (~Truthy(fr.ruleId) /\ ~fr.experimentResult.present) =>
                r.reason = "DEFAULT" /\ r.variant = "None"
\* a rule id and an experiment result together: the rule id wins
C10_Witness ==
    /\ EvalFeatureReturned
    /\ ev.kind = "integer"
    /\ ev.outcome.fr.present
    /\ ev.outcome.fr.value = PyStr("5")
    /\ ev.outcome.fr.ruleId = PyStr("rule1")
    /\ ev.outcome.fr.experimentResult.present
    /\ ev.result = Details(PyInt("5"), "rule1", "TARGETING_MATCH", "None", NoMessage)

\* a value of the backend was handed to the value converter of this
\* evaluation (line 193 on the fast path, line 211 after eval_feature) and the
\* converter raised
CoercionFailed ==
    \/ /\ ev.path = "fast"
       /\ ev.feature.defaultValue # None
       /\ ~value_converter(ev.kind, ev.feature.defaultValue).ok
    \/ /\ EvalFeatureReturned
       /\ ev.outcome.fr.present
       /\ ev.outcome.fr.value # None
       /\ ~value_converter(ev.kind, ev.outcome.fr.value).ok

\* C11: whenever a value of the backend that reaches the converter of an
\* integer or float evaluation cannot be converted, the evaluation returns
\* the caller's default with reason ERROR and error code TYPE_MISMATCH, on
\* the fast path as well as after eval_feature.
C11_TypeMismatchOnEveryPath ==
    (EvalDone /\ ev.kind \in {"integer", "float"} /\ CoercionFailed) =>
        /\ ev.result.value = ev.default
        /\ ev.result.reason = "ERROR"
        /\ ev.result.error_code = "TYPE_MISMATCH"

\* a run_async call has come back to its caller
CallOver == lastCall.pc \in {"returned", "raised"}

\* C12: a run_async call made inside a coroutine of the thread's running
\* loop comes back at once (with a pending handle for the operation): no
\* such call waits on the loop's own thread for the loop to run the
\* operation.
C12_NoDeadlockOnRunningLoop ==
    lastCall.pc # "blocked"

\* C13: when the operation raises, of whatever type, run_async raises that
\* same exception, with its type and its message, and has started the
\* operation once.
C13_ExceptionUnwrapped ==
    (CallOver /\ lastCall.outcome.raises) =>
        /\ lastCall.pc = "raised"
        /\ lastCall.result.exc = lastCall.outcome.exc
        /\ lastCall.result.msg = <<lastCall.outcome.text>>
        /\ lastCall.result.starts = 1

\* C14: on a thread whose loop is not running (no loop, an idle loop, or the
\* closed loop an earlier call left installed) run_async runs an operation
\* that returns to its end, once, and returns its result; so for every call
\* of a sequence on the thread.
C14_RunsToCompletion ==
    (lastCall.pc # "idle" /\ lastCall.before # "running_loop"
        /\ ~lastCall.outcome.raises) =>
        /\ lastCall.pc = "returned"
        /\ lastCall.result = Returns(lastCall.outcome.fr, 1)
\* a call returned a result on a thread where an earlier call had created,
\* installed and closed its own loop
C14_Witness ==
    /\ lastCall.pc = "returned"
    /\ lastCall.before = "closed_loop"
    /\ lastCall.result.v.present
    /\ lastCall.result.v.value = PyStr("abc")
    /\ lastCall.result.starts = 1

\* the backend operations an evaluation has invoked, in order: line 199 is
\* the only call _process_flag_evaluation makes on the client
BackendCalls(e) == [i \in 1..e.calls |-> "eval_feature"]
\* what the backend's is_on reports for a flag whose evaluation gives fr:
\* whether the flag is known and its value is truthy
IsOn(fr) == fr.present /\ Truthy(fr.value)

\* C15: on an initialized provider, when the backend's is_on reports true
\* for the flag, resolve_boolean_details with default False returns True
\* with reason TARGETING_MATCH, having invoked is_on exactly once.
C15_BooleanViaIsOn ==
    (EvalFeatureReturned /\ ev.kind = "boolean" /\ ev.default = PyFalse
        /\ IsOn(ev.outcome.fr)) =>
        /\ ev.result.value = PyTrue
        /\ ev.result.reason = "TARGETING_MATCH"
        /\ BackendCalls(ev) = <<"is_on">>

\* C16: when eval_feature returns None (the flag is unknown), the evaluation
\* returns the caller's default with reason DEFAULT, no variant, no error
\* code and no error message.
C16_UnknownFlagDefault ==
    (EvalFeatureReturned /\ ~ev.outcome.fr.present) =>
        ev.result = Details(ev.default, "None", "DEFAULT", "None", NoMessage)
\* an object evaluation on a Ready provider got None from eval_feature
C16_Witness ==
    /\ EvalFeatureReturned
    /\ ~ev.outcome.fr.present
    /\ Ready
    /\ ev.kind = "object"
    /\ ev.calls = 1
    /\ ev.result.value = PyObj("{'d': 0}")

\* the reasons a returned FlagResolutionDetails carries in this provider
Reasons == {"DEFAULT", "TARGETING_MATCH", "SPLIT", "ERROR"}
\* a result an evaluation gives on a provider that stays Ready throughout:
\* a value without error code, or one of the errors of the evaluation itself
NormalResult(r) == r.error_code \in {"None", "TYPE_MISMATCH", "TARGETING_KEY_MISSING"}
\* close() cleared self.client after this evaluation had passed the gate and
\* before it made its backend call
ClosedUnderway == EvalDone /\ ev.path = "no_client"

\* C17: however the steps of an evaluation interleave with close() (and
\* initialize()) calls, the evaluation returns a result and raises nothing:
\* a normal result, PROVIDER_NOT_READY, or the caller's default with error
\* code GENERAL; and when close() cleared the client under way, it is the
\* caller's default with GENERAL and the backend is not called.
C17_CloseRaceContained ==
    /\ EvalDone =>
        /\ ev.result.reason \in Reasons
        /\ \/ NormalResult(ev.result)
           \/ ev.result = NotReadyDetails(ev.default)
           \/ ev.result = GeneralDetails(ev.default, ev.result.error_message)
    /\ ClosedUnderway =>
        /\ ev.result = GeneralDetails(ev.default, ev.result.error_message)
        /\ ev.calls = 0
\* close() took effect between the two reads of self.client in line 191
C17_Witness ==
    /\ ClosedUnderway
    /\ client = 0 /\ ~initialized
    /\ \E c \in ClientIds : closeCalls[c] > 0
    /\ MessageContains(ev.result.error_message,
                       "'NoneType' object has no attribute 'features'")

\* the step in which an evaluation call passes or fails the gate of line 171
GateStep ==
    /\ ev.pc \in {"idle", "blocked"}
    /\ ev'.pc \in {"gated", "done"}
    /\ ev'.path # "create_user_context"

\* C18: while an initialize() call awaits the backend's initialize(), from
\* whatever state it was called, an evaluation that comes to the gate is
\* refused with PROVIDER_NOT_READY, and no evaluation has its eval_feature
\* call on the client that is being initialized.
C18_RefusedWhileInitializing ==
    /\ [][(PendingInits # {} /\ GateStep) =>
             (ev'.pc = "done" /\ ev'.result = NotReadyDetails(ev'.default))]_vars
    /\ [](ev.target # 0 => backendInit[ev.target] # "pending")

\* C20: when a close() call completes and no other initialize() or close()
\* call is under way, every backend client built so far has had its close()
\* invoked, a client replaced by a later initialize() included.
C20_EveryClientReleased ==
    [][\A c \in ClientIds :
          (CloseReturns(c) /\ Quiet') =>
              \A k \in 1..created : closeCalls[k] > 0]_vars

\* the evaluation found the flag key in client.features and returned from
\* line 193
FastPathTaken == EvalDone /\ ev.path = "fast"

\* C19 as stated: whenever client.features holds the flag key, the
\* evaluation returns with reason DEFAULT, no variant and no error code,
\* without invoking eval_feature.
C19_FastPathAlwaysDefault ==
    FastPathTaken =>
        /\ ev.result.reason = "DEFAULT"
        /\ ev.result.variant = "None"
        /\ ev.result.error_code = "None"
        /\ ev.calls = 0

\* C19, amended: whenever client.features holds the flag key and the
\* feature's defaultValue converts to the requested type, the evaluation
\* returns the converted defaultValue with reason DEFAULT, no variant and no
\* error code, without invoking eval_feature; and no context keeps an
\* evaluation that passed the gate from the lookup.
C19_FastPathDefault ==
    /\ (FastPathTaken /\ value_converter(ev.kind, ev.feature.defaultValue).ok) =>
          /\ ev.result = Details(value_converter(ev.kind, ev.feature.defaultValue).v,
                                 "None", "DEFAULT", "None", NoMessage)
          /\ ev.calls = 0
    /\ ev.path # "targeting_key_missing"
\* an integer evaluation got the feature's defaultValue "5" as 5
C19_Witness ==
    /\ FastPathTaken
    /\ ev.kind = "integer"
    /\ ev.feature.defaultValue = PyStr("5")
    /\ ev.result.value = PyInt("5")
    /\ ev.result.reason = "DEFAULT"
    /\ ev.calls = 0

\* C21: no evaluation, in whatever provider state and for whatever context,
\* returns error code TARGETING_KEY_MISSING: for no context does the guard
\* of line 183 hold of what _create_user_context made of it.
C21_TargetingKeyMissingNeverReturned ==
    /\ EvalDone => ev.result.error_code # "TARGETING_KEY_MISSING"
    /\ Translated => ~TargetingKeyMissing(ev.ctx, ev.user)
\* an evaluation with targeting key "user-123" and no "id" attribute of its
\* own came through the guard
C21_Witness ==
    /\ ev.pc = "gated"
    /\ ev.input.present
    /\ ev.input.targeting_key = PyStr("user-123")
    /\ "id" \notin DOMAIN ev.input.attributes
    /\ DictGet(ev.user, "id") = PyStr("user-123")

\* C22: an evaluation calls eval_feature at most once and the coroutine it
\* gets is started at most once, also when the first attempt of run_async
\* raised RuntimeError and the handler of line 51 took over.
C22_EvalFeatureStartedAtMostOnce ==
    /\ ev.calls <= 1
    /\ ev.starts <= 1
    /\ EvalDone => ev.starts <= ev.calls
\* the coroutine raised RuntimeError on an idle loop, the handler of line 51
\* took the finished coroutine to a new loop, which refused it
C22_Witness ==
    /\ EvalFeatureRaised
    /\ ev.outcome.exc = "RuntimeError"
    /\ MessageContains(ev.result.error_message, "cannot reuse already awaited coroutine")
    /\ ev.calls = 1
    /\ ev.starts = 1

\* C23: when eval_feature returns a result whose value is None, the
\* converter is not applied: the evaluation returns the caller's default
\* with no error code, with reason TARGETING_MATCH and the rule id as
\* variant if the result has a rule id, else SPLIT and str(variationId) if it
\* has an experiment result, else DEFAULT and no variant.
C23_NullValueKeepsDefault ==
    (EvalFeatureReturned /\ ev.outcome.fr.present /\ ev.outcome.fr.value = None) =>
        LET fr == ev.outcome.fr
            r == ev.result
        IN /\ r.value = ev.default
           /\ r.error_code = "None"
           /\ r.error_message = NoMessage
           /\ r.reason = (IF Truthy(fr.ruleId) THEN "TARGETING_MATCH"
                          ELSE IF fr.experimentResult.present THEN "SPLIT"
                          ELSE "DEFAULT")
           /\ r.variant = (IF Truthy(fr.ruleId) THEN fr.ruleId[2]
                           ELSE IF fr.experimentResult.present
                           THEN fr.experimentResult.variationId[2]
                           ELSE "None")
\* an integer evaluation (int(None) would raise) got value None from an
\* experiment and returned the default with SPLIT
C23_Witness ==
    /\ EvalFeatureReturned
    /\ ev.kind = "integer"
    /\ ev.outcome.fr.present
    /\ ev.outcome.fr.value = None
    /\ ev.outcome.fr.ruleId = None
    /\ ev.outcome.fr.experimentResult.present
    /\ ev.result = Details(PyInt("7"), "2", "SPLIT", "None", NoMessage)

====
